---- MODULE Spec2Model ----
(***************************************************************************)
(* A model of lib/cors-anywhere.ts: the request handler returned by        *)
(* getHandler (the validator chain), withCORS, proxyRequest,               *)
(* onProxyResponse (the redirect follower), showUsage and the              *)
(* proxy.on('error') handler of createServer.                              *)
(*                                                                         *)
(* Strings that the code takes apart (URLs, origins, Location values) are  *)
(* sequences of one-character strings; Join turns them into the strings   *)
(* that are written to headers and bodies.                                 *)
(***************************************************************************)
EXTENDS Integers, Sequences, FiniteSets, TLC

\* -------------------------------------------------------------------------
\* Character sequences
\* -------------------------------------------------------------------------

RECURSIVE Join(_)
Join(s) == IF s = <<>> THEN "" ELSE Head(s) \o Join(Tail(s))

Take(s, n) == SubSeq(s, 1, IF n < Len(s) THEN n ELSE Len(s))

Drop(s, n) == SubSeq(s, n + 1, Len(s))

StartsWith(s, p) == Len(s) >= Len(p) /\ SubSeq(s, 1, Len(p)) = p

Digits == <<"0", "1", "2", "3", "4", "5", "6", "7", "8", "9">>

IsDigit(c) == \E i \in 1..10 : Digits[i] = c

DigitValue(c) == (CHOOSE i \in 1..10 : Digits[i] = c) - 1

\* Number("99999"): the numeric value JavaScript gives a string of digits.
RECURSIVE ToNumber(_)
ToNumber(s) ==
    IF s = <<>> THEN 0
    ELSE 10 * ToNumber(SubSeq(s, 1, Len(s) - 1)) + DigitValue(s[Len(s)])

\* (n).toString() for n >= 0.
RECURSIVE NumToString(_)
NumToString(n) ==
    IF n < 10 THEN Digits[n + 1]
    ELSE NumToString(n \div 10) \o Digits[(n % 10) + 1]

\* Length of the longest prefix of s made of digits.
RECURSIVE DigitRun(_)
DigitRun(s) ==
    IF s # <<>> /\ IsDigit(Head(s)) THEN 1 + DigitRun(Tail(s)) ELSE 0

\* Index of the first element of s that is in set cs, or Len(s) + 1.
RECURSIVE IndexOfAny(_, _)
IndexOfAny(s, cs) ==
    IF s = <<>> \/ Head(s) \in cs THEN 1 ELSE 1 + IndexOfAny(Tail(s), cs)

\* Index of the last element of s equal to c, or 0.
RECURSIVE LastIndexOf(_, _)
LastIndexOf(s, c) ==
    IF s = <<>> THEN 0
    ELSE IF s[Len(s)] = c THEN Len(s)
    ELSE LastIndexOf(SubSeq(s, 1, Len(s) - 1), c)

\* The value JavaScript calls undefined or null.
NoValue == <<"(none)">>

\* null, where the code expects an object.
Null == [null |-> TRUE]

cHttp == <<"h", "t", "t", "p", ":">>

cHttps == <<"h", "t", "t", "p", "s", ":">>

cSlash == <<"/">>

cSlashes == <<"/", "/">>

\* -------------------------------------------------------------------------
\* url.parse and url.resolve of node:url, on the shapes parseURL and
\* onProxyResponse hand them: "<scheme>//<host>[:<port>][<path>]" over
\* lower-case letters, digits and . : / ?
\* -------------------------------------------------------------------------

\* The scheme ("http:" or "https:") s starts with, or <<>>.
SchemeOf(s) ==
    IF StartsWith(s, cHttps) THEN cHttps
    ELSE IF StartsWith(s, cHttp) THEN cHttp
    ELSE <<>>

\* The host "hostname[:port]" taken apart at its last colon (0: none): the
\* port is what /:[0-9]*$/ matches, without the colon, if it has digits.
SplitHost(rawHost, colon) ==
    IF colon > 0 /\ DigitRun(Drop(rawHost, colon)) = Len(rawHost) - colon
    THEN [hostname |-> Take(rawHost, colon - 1),
          port     |-> IF colon < Len(rawHost) THEN Drop(rawHost, colon) ELSE NoValue]
    ELSE [hostname |-> rawHost, port |-> NoValue]

HostOf(hp) == IF hp.port = NoValue THEN hp.hostname ELSE hp.hostname \o <<":">> \o hp.port

PathOf(after) ==
    IF after = <<>> THEN cSlash
    ELSE IF Head(after) = "?" THEN cSlash \o after
    ELSE after

UrlObject(protocol, hp, path) ==
    [protocol |-> protocol, host |-> HostOf(hp), hostname |-> hp.hostname, port |-> hp.port,
     path |-> path, href |-> protocol \o cSlashes \o HostOf(hp) \o path]

\* The URL of protocol, and of what follows its "//", cut at hostEnd.
UrlOfParts(protocol, rest, hostEnd) ==
    UrlObject(protocol,
              SplitHost(Take(rest, hostEnd - 1), LastIndexOf(Take(rest, hostEnd - 1), ":")),
              PathOf(Drop(rest, hostEnd - 1)))

UrlAfterScheme(protocol, rest) == UrlOfParts(protocol, rest, IndexOfAny(rest, {"/", "?"}))

urlParse(s) == UrlAfterScheme(SchemeOf(s), Drop(s, Len(SchemeOf(s)) + 2))

\* base.protocol + '//' + base.host + to
ResolvePath(base, to) == base.protocol \o cSlashes \o base.host \o to

\* url.resolve(from, to) for an absolute http(s) `to` and for a `to` that is
\* an absolute path.
urlResolve(from, to) ==
    IF SchemeOf(to) # <<>> THEN urlParse(to).href ELSE ResolvePath(urlParse(from), to)

\* -------------------------------------------------------------------------
\* parseURL (the URL normalizer)
\* -------------------------------------------------------------------------

\* :(\d{0,5})(?=[\/?]|$) at the start of r, whose run of digits after the
\* colon has length n: the digits captured, or NoValue.
PortDigits(r, n) ==
    IF n <= 5 /\ (Len(r) = 1 + n \/ r[2 + n] \in {"/", "?"})
    THEN SubSeq(r, 2, 1 + n)
    ELSE NoValue

\* (?::(\d{0,5})(?=[\/?]|$))? at the start of r: the digits captured, or
\* NoValue when the group does not match.
PortGroup(r) ==
    IF r # <<>> /\ Head(r) = ":" THEN PortDigits(r, DigitRun(Tail(r))) ELSE NoValue

\* ([\/?][\S\s]*|$) at the start of r.
PathGroup(r) == r = <<>> \/ Head(r) \in {"/", "?"}

\* The lengths k for which ([^\/?]+?) can take the first k characters of t.
HostnameLengths(t) ==
    {k \in 1..(IndexOfAny(t, {"/", "?"}) - 1) :
        PortGroup(Drop(t, k)) # NoValue \/ PathGroup(Drop(t, k))}

Least(S) == CHOOSE n \in S : \A m \in S : n <= m

\* The lazy ([^\/?]+?) takes the least of the lengths.
BodyMatchOf(t, lengths) ==
    IF lengths = {} THEN Null
    ELSE [hostname |-> Take(t, Least(lengths)), port |-> PortGroup(Drop(t, Least(lengths)))]

\* The match of the part of the pattern after the optional scheme, on t.
BodyMatch(t) == BodyMatchOf(t, HostnameLengths(t))

\* The first alternative of (?:(https?:)?\/\/)? that lets the rest match.
FirstMatch(scheme, withScheme, withSlashes, bare) ==
    IF withScheme # Null
    THEN [scheme |-> scheme, hostname |-> withScheme.hostname, port |-> withScheme.port]
    ELSE IF withSlashes # Null
    THEN [scheme |-> <<>>, hostname |-> withSlashes.hostname, port |-> withSlashes.port]
    ELSE IF bare # Null
    THEN [scheme |-> <<>>, hostname |-> bare.hostname, port |-> bare.port]
    ELSE Null

UrlMatchWith(req_url, scheme) ==
    FirstMatch(scheme,
               IF scheme # <<>> /\ StartsWith(Drop(req_url, Len(scheme)), cSlashes)
               THEN BodyMatch(Drop(req_url, Len(scheme) + 2)) ELSE Null,
               IF StartsWith(req_url, cSlashes) THEN BodyMatch(Drop(req_url, 2)) ELSE Null,
               BodyMatch(req_url))

\* req_url.match(/^(?:(https?:)?\/\/)?(([^\/?]+?)(?::(\d{0,5})(?=[\/?]|$))?)([\/?][\S\s]*|$)/i):
\* [scheme (match[1]), hostname (match[3]), port (match[4])], or Null.
UrlMatch(req_url) == UrlMatchWith(req_url, SchemeOf(req_url))

\* InferScheme comparing the captured port as a number.
InferSchemeNumericPort(req_url, match) ==
    (IF match.port \notin {NoValue, <<>>} /\ ToNumber(match.port) = 443 THEN cHttps ELSE cHttp)
    \o (IF StartsWith(req_url, cSlashes) THEN req_url ELSE cSlashes \o req_url)

\* Lines 262-266: the scheme given to a URL that has none.
InferScheme(req_url, match) ==
    (IF match.port = <<"4", "4", "3">> THEN cHttps ELSE cHttp)
    \o (IF StartsWith(req_url, cSlashes) THEN req_url ELSE cSlashes \o req_url)

\* Lines 269-273
RequireHostname(parsed) == IF parsed.hostname = <<>> THEN Null ELSE parsed

ParseMatched(req_url, match) ==
    IF match = Null THEN Null
    ELSE IF match.scheme = <<>> /\ SchemeOf(req_url) # <<>> THEN Null
    ELSE IF match.scheme = <<>> THEN RequireHostname(urlParse(InferScheme(req_url, match)))
    ELSE RequireHostname(urlParse(req_url))

parseURL(req_url) == ParseMatched(req_url, UrlMatch(req_url))

\* -------------------------------------------------------------------------
\* Header objects: own properties in insertion order, as <<name, value>>
\* pairs. A value is a sequence of tokens whose concatenation is its text.
\* -------------------------------------------------------------------------

HasHeader(h, name) == \E i \in 1..Len(h) : h[i][1] = name

GetHeader(h, name) ==
    IF HasHeader(h, name) THEN h[CHOOSE i \in 1..Len(h) : h[i][1] = name][2] ELSE NoValue

SetHeader(h, name, v) ==
    IF HasHeader(h, name)
    THEN [i \in 1..Len(h) |-> IF h[i][1] = name THEN <<name, v>> ELSE h[i]]
    ELSE Append(h, <<name, v>>)

DeleteHeader(h, name) == SelectSeq(h, LAMBDA p : p[1] # name)

\* Object.keys(headers)
HeaderNames(h) == [i \in 1..Len(h) |-> h[i][1]]

\* names.join(',')
RECURSIVE JoinComma(_)
JoinComma(names) ==
    IF names = <<>> THEN <<>>
    ELSE IF Len(names) = 1 THEN names
    ELSE <<Head(names), ",">> \o JoinComma(Tail(names))

\* A value that an if () takes as true.
Truthy(v) == v # NoValue /\ v # <<>>

\* indexOf(x) >= 0 on an array.
Includes(arr, x) == \E i \in 1..Len(arr) : arr[i] = x

\* name.toLowerCase(), for the header names the program handles.
toLowerCase(name) ==
    CASE name = "Access-Control-Allow-Origin"   -> "access-control-allow-origin"
      [] name = "Access-Control-Max-Age"        -> "access-control-max-age"
      [] name = "Access-Control-Allow-Methods"  -> "access-control-allow-methods"
      [] name = "Access-Control-Allow-Headers"  -> "access-control-allow-headers"
      [] name = "Access-Control-Expose-Headers" -> "access-control-expose-headers"
      [] name = "Access-Control-Request-Method" -> "access-control-request-method"
      [] name = "Access-Control-Request-Headers" -> "access-control-request-headers"
      [] name = "Content-Type"                  -> "content-type"
      [] name = "X-Requested-With"              -> "x-requested-with"
      [] \E n \in 1..9 : name = "X-CORS-Redirect-" \o Digits[n + 1]
           -> "x-cors-redirect-" \o Digits[(CHOOSE n \in 1..9 : name = "X-CORS-Redirect-" \o Digits[n + 1]) + 1]
      [] OTHER -> name

\* -------------------------------------------------------------------------
\* ServerResponse (node:http): the header store is keyed by lower-case name.
\* -------------------------------------------------------------------------

NewResponse ==
    [headers |-> <<>>, headersSent |-> FALSE, statusCode |-> 200, statusMessage |-> "",
     body |-> <<>>, writableEnded |-> FALSE, writeHeads |-> 0]

ResSetHeader(r, name, v) == [r EXCEPT !.headers = SetHeader(@, toLowerCase(name), v)]

RECURSIVE ResSetHeaders(_, _)
ResSetHeaders(r, h) ==
    IF h = <<>> THEN r ELSE ResSetHeaders(ResSetHeader(r, Head(h)[1], Head(h)[2]), Tail(h))

\* res.writeHead(statusCode, statusMessage, headers)
ResWriteHead(r, statusCode, statusMessage, h) ==
    [ResSetHeaders(r, h) EXCEPT !.statusCode = statusCode, !.statusMessage = statusMessage,
                                !.headersSent = TRUE, !.writeHeads = @ + 1]

\* res.end(body)
ResEnd(r, body) == [r EXCEPT !.body = body, !.writableEnded = TRUE]

\* An error handler that leaves the staged headers in place.
ResKeepAllHeaders(r) == r

\* res.getHeaderNames().forEach(name => res.removeHeader(name))
ResRemoveAllHeaders(r) == [r EXCEPT !.headers = <<>>]

\* -------------------------------------------------------------------------
\* withCORS
\* -------------------------------------------------------------------------

\* A withCORS that sets Access-Control-Max-Age only.
AllowOriginOmitted(headers, method, corsMaxAge) ==
    IF method = "OPTIONS" /\ corsMaxAge # 0
    THEN SetHeader(headers, "Access-Control-Max-Age", <<NumToString(corsMaxAge)>>)
    ELSE headers

\* Lines 69-75
AllowOrigin(headers, method, corsMaxAge) ==
    IF method = "OPTIONS" /\ corsMaxAge # 0
    THEN SetHeader(SetHeader(headers, "Access-Control-Allow-Origin", <<"*">>),
                   "Access-Control-Max-Age", <<NumToString(corsMaxAge)>>)
    ELSE SetHeader(headers, "Access-Control-Allow-Origin", <<"*">>)

\* Lines 77-80 and 82-85, on hq = [headers, request]: the response headers and
\* request.headers.
EchoRequestHeader(hq, requestName, responseName) ==
    IF Truthy(GetHeader(hq.request, requestName))
    THEN [headers |-> SetHeader(hq.headers, responseName, GetHeader(hq.request, requestName)),
          request |-> DeleteHeader(hq.request, requestName)]
    ELSE hq

\* Line 88
ExposeHeaders(h) == SetHeader(h, "Access-Control-Expose-Headers", JoinComma(HeaderNames(h)))

CorsResult(hq, request) ==
    [headers |-> ExposeHeaders(hq.headers), request |-> [request EXCEPT !.headers = hq.request]]

\* withCORS(headers, request): [headers, request], the two objects it changes.
withCORS(headers, request, corsMaxAge) ==
    CorsResult(
        EchoRequestHeader(
            EchoRequestHeader(
                [headers |-> AllowOrigin(headers, request.method, corsMaxAge),
                 request |-> request.headers],
                "Access-Control-Request-Method", "Access-Control-Allow-Methods"),
            "Access-Control-Request-Headers", "Access-Control-Allow-Headers"),
        request)

\* -------------------------------------------------------------------------
\* isValidHostName
\* -------------------------------------------------------------------------

\* The top-level domains of regexp-top-level-domain that occur in the inputs.
KnownTLDs == {<<"i", "o">>, <<"c", "o", "m">>}

\* regexp_tld.test(hostname): the hostname ends with "." and a known
\* top-level domain.
regexp_tld_test(hostname) ==
    LastIndexOf(hostname, ".") > 0 /\ Drop(hostname, LastIndexOf(hostname, ".")) \in KnownTLDs

\* The "."-separated parts of s.
RECURSIVE SplitDots(_)
SplitDots(s) ==
    IF IndexOfAny(s, {"."}) > Len(s) THEN <<s>>
    ELSE <<Take(s, IndexOfAny(s, {"."}) - 1)>> \o SplitDots(Drop(s, IndexOfAny(s, {"."})))

IsDottedQuad(parts) ==
    /\ Len(parts) = 4
    /\ \A i \in 1..4 :
          /\ Len(parts[i]) \in 1..3
          /\ DigitRun(parts[i]) = Len(parts[i])
          /\ ToNumber(parts[i]) <= 255
          /\ (Len(parts[i]) > 1 => parts[i][1] # "0")

\* net.isIPv4(hostname)
isIPv4(hostname) == IsDottedQuad(SplitDots(hostname))

\* net.isIPv6(hostname): an IPv6 literal holds a ":", which no hostname that
\* url.parse returns for these inputs holds.
isIPv6(hostname) == FALSE

isValidHostName(hostname) ==
    regexp_tld_test(hostname) \/ isIPv4(hostname) \/ isIPv6(hostname)

\* -------------------------------------------------------------------------
\* getHandler: the options and their normalisation
\* -------------------------------------------------------------------------

\* The defaults of getHandler. requireHeader, checkRateLimit and
\* handleInitialRequest default to null; getProxyForUrl is proxy-from-env's,
\* which returns '' when the environment names no proxy.
corsAnywhereDefaults ==
    [handleInitialRequest |-> FALSE,
     getProxyForUrl       |-> <<>>,
     maxRedirects         |-> 5,
     originBlacklist      |-> <<>>,
     originWhitelist      |-> <<>>,
     checkRateLimit       |-> [present |-> FALSE, limited |-> {}, message |-> <<>>],
     redirectSameOrigin   |-> FALSE,
     requireHeader        |-> [type |-> "null", value |-> <<>>],
     removeHeaders        |-> <<>>,
     setHeaders           |-> <<>>,
     corsMaxAge           |-> 0,
     helpFile             |-> <<"help", ".txt">>]

\* Lines 300-310: requireHeader becomes an array of lower-case names, or
\* null (here the empty sequence).
NormalizeRequireHeader(opt) ==
    IF opt.type = "string" /\ opt.value # ""
    THEN <<toLowerCase(opt.value)>>
    ELSE IF opt.type = "array" /\ opt.value # <<>>
    THEN [i \in 1..Len(opt.value) |-> toLowerCase(opt.value[i])]
    ELSE <<>>

\* The corsAnywhere object of getHandler(options, proxy).
getHandler(options) ==
    [[k \in DOMAIN corsAnywhereDefaults |->
         IF k \in DOMAIN options THEN options[k] ELSE corsAnywhereDefaults[k]]
     EXCEPT !["requireHeader"] = NormalizeRequireHeader(@)]

hasRequiredHeaders(c, headers) ==
    c.requireHeader = <<>>
    \/ \E i \in 1..Len(c.requireHeader) : HasHeader(headers, c.requireHeader[i])

\* corsAnywhere.checkRateLimit(origin)
checkRateLimit(c, origin) ==
    IF origin \in c.checkRateLimit.limited THEN c.checkRateLimit.message ELSE <<>>

\* -------------------------------------------------------------------------
\* The inputs
\* -------------------------------------------------------------------------

hostA == <<"a", ".", "i", "o">>

hostB == <<"b", ".", "i", "o">>

OriginA == cHttp \o cSlashes \o hostA

OriginB == cHttp \o cSlashes \o hostB

\* The values of the Origin request header; <<>> is a request without one.
Origins == {<<>>, OriginA, OriginB}

\* req.url of the requests.
UrlRoot == <<"/">>

UrlOneSlash == cSlash \o cHttp \o cSlash \o hostA

UrlProbe == <<"/", "iscorsneeded">>

UrlBigPort == cSlash \o hostA \o <<":", "9", "9", "9", "9", "9", "/">>

UrlFavicon == <<"/", "f", "a", "v", "i", "c", "o", "n", ".", "i", "c", "o">>

UrlPlain == cSlash \o hostA \o <<"/", "x">>

UrlHttp == cSlash \o OriginA \o <<"/", "x">>

UrlHttpsB == cSlash \o cHttps \o cSlashes \o hostB \o <<"/">>

UrlPort443 == cSlash \o hostB \o <<":", "4", "4", "3", "/">>

UrlSchemeNoTld == cSlash \o cHttp \o cSlashes \o <<"n", "o", "t", "l", "d", "/">>

RawUrls ==
    {UrlRoot, UrlOneSlash, UrlProbe, UrlBigPort, UrlFavicon, UrlPlain, UrlHttp,
     UrlHttpsB, UrlPort443, UrlSchemeNoTld}

\* The Host header of the requests: the proxy's own host.
ProxyHost == <<"proxy.test">>

\* An IncomingMessage. Node gives the header names in lower case.
MakeRequest(method, url, origin, withXrw, preflightHeaders, forwardedProto) ==
    [method  |-> method,
     url     |-> url,
     headers |->
        <<<<"host", ProxyHost>>>>
        \o (IF origin = <<>> THEN <<>> ELSE <<<<"origin", origin>>>>)
        \o (IF withXrw THEN <<<<"x-requested-with", <<"XMLHttpRequest">>>>>> ELSE <<>>)
        \o (IF method = "POST"
            THEN <<<<"content-type", <<"text/plain">>>>, <<"content-length", <<"5">>>>>>
            ELSE <<>>)
        \o (IF preflightHeaders
            THEN <<<<"access-control-request-method", <<"PUT">>>>,
                   <<"access-control-request-headers", <<"x-custom">>>>>>
            ELSE <<>>)
        \o (IF forwardedProto = <<>> THEN <<>> ELSE <<<<"x-forwarded-proto", forwardedProto>>>>)]

\* -------------------------------------------------------------------------
\* State
\* -------------------------------------------------------------------------

VARIABLES
    corsAnywhere,   \* the configuration object of getHandler
    help_text,      \* the cache of showUsage, for corsAnywhere.helpFile
    pc,             \* where the exchange is: "idle", "hooked", "reading",
                    \* "upstream", "streaming", "done"
    received,       \* the request as it arrived
    req,            \* the IncomingMessage (method and headers change on a redirect)
    requestState,   \* req.corsAnywhereRequestState
    res,            \* the ServerResponse
    usageHeaders,   \* the headers object held by the readFile callback of showUsage
    proxyReq,       \* the current outbound request of the proxy engine
    engineCalls,    \* proxy.web calls of this exchange
    abortedReqs,    \* aborted outbound requests that may still emit 'error'
    hookCalls,      \* handleInitialRequest calls of this exchange
    rateCalls,      \* checkRateLimit calls of this exchange
    proxyRes,       \* the last upstream response, as the upstream sent it
    chain,          \* the scripted upstream: the number of 302 responses it
                    \* sends before a 200; -1 for an upstream that is not scripted
    fileReads,      \* fs.readFile calls of this exchange, counted up to MaxFileReads
    other           \* a second exchange of the same server: its own req, res,
                    \* request state and outbound request

vars ==
    <<corsAnywhere, help_text, pc, received, req, requestState, res, usageHeaders,
      proxyReq, engineCalls, abortedReqs, hookCalls, rateCalls, proxyRes, chain, fileReads,
      other>>

NoRequest == [method |-> "", url |-> <<>>, headers |-> <<>>]

NoProxyReq == [active |-> FALSE, target |-> <<>>, url |-> <<>>, method |-> "", headers |-> <<>>]

NoProxyRes == [statusCode |-> 0, headers |-> <<>>]

NoRequestState ==
    [maxRedirects |-> 0, corsMaxAge |-> 0, location |-> Null, proxyBaseUrl |-> NoValue,
     redirectCount_ |-> <<>>]

\* -------------------------------------------------------------------------
\* proxy.on('error') of createServer
\* -------------------------------------------------------------------------

ErrorText == <<"Not found because of proxy error: ", "(err)">>

onProxyError(r) ==
    IF r.headersSent
    THEN (IF r.writableEnded = FALSE THEN [r EXCEPT !.writableEnded = TRUE] ELSE r)
    ELSE ResEnd(ResWriteHead(ResRemoveAllHeaders(r), 404, "",
                             <<<<"Access-Control-Allow-Origin", <<"*">>>>>>),
                ErrorText)

\* -------------------------------------------------------------------------
\* proxyRequest
\* -------------------------------------------------------------------------

\* The outbound request the engine makes for proxyOptions and req.
OutboundRequest(q, location, through) ==
    [active  |-> TRUE,
     target  |-> IF Truthy(through) THEN through ELSE location.href,
     url     |-> IF Truthy(through) THEN location.href ELSE location.path,
     method  |-> q.method,
     headers |-> SetHeader(q.headers, "host", location.host)]

\* proxyRequest(req, res, proxy); `throws`: proxy.web throws.
proxyRequest(c, q, st, r, throws) ==
    [req      |-> [q EXCEPT !.url = IF Truthy(c.getProxyForUrl)
                                    THEN st.location.href ELSE st.location.path],
     proxyReq |-> IF throws THEN NoProxyReq
                  ELSE OutboundRequest(q, st.location, c.getProxyForUrl),
     res      |-> IF throws THEN onProxyError(r) ELSE r,
     pc       |-> IF throws THEN "done" ELSE "upstream"]

\* -------------------------------------------------------------------------
\* showUsage
\* -------------------------------------------------------------------------

isHtml(help_file) == help_file # <<>> /\ help_file[Len(help_file)] = ".html"

\* Lines 27-41, with headers['content-type'] set: the response is written
\* from the cache, or a file read is started.
ServeUsage(cached, h, r) ==
    IF Truthy(cached)
    THEN [res |-> ResEnd(ResWriteHead(r, 200, "", h), cached), pc |-> "done",
          usageHeaders |-> <<>>]
    ELSE [res |-> r, pc |-> "reading", usageHeaders |-> h]

\* showUsage(help_file, headers, response) with the cache holding `cached`.
showUsage(help_file, cached, headers, r) ==
    ServeUsage(cached,
               SetHeader(headers, "content-type",
                         IF isHtml(help_file) THEN <<"text/html">> ELSE <<"text/plain">>),
               r)

\* -------------------------------------------------------------------------
\* The request handler of getHandler (the validator chain)
\* -------------------------------------------------------------------------

\* /^\/https?:\/[^/]/i.test(req.url)
LooksLikeMissingSlash(url) ==
    /\ url # <<>> /\ Head(url) = "/"
    /\ SchemeOf(Drop(url, 1)) # <<>>
    /\ Len(url) >= 3 + Len(SchemeOf(Drop(url, 1)))
    /\ url[2 + Len(SchemeOf(Drop(url, 1)))] = "/"
    /\ url[3 + Len(SchemeOf(Drop(url, 1)))] # "/"

\* /^\/https?:/.test(req.url)
HasExplicitScheme(url) == url # <<>> /\ Head(url) = "/" /\ SchemeOf(Drop(url, 1)) # <<>>

\* req.headers.origin || ''
OriginOf(q) ==
    IF Truthy(GetHeader(q.headers, "origin")) THEN GetHeader(q.headers, "origin") ELSE <<>>

\* location.href[origin.length] === '/' && location.href.lastIndexOf(origin, 0) === 0
IsSameOrigin(location, origin) ==
    /\ Len(location.href) > Len(origin)
    /\ location.href[Len(origin) + 1] = "/"
    /\ StartsWith(location.href, origin)

\* Origin checks in which a whitelisted origin is admitted before the
\* blacklist is looked at.
OriginChecksWhitelistWins(c, origin) ==
    IF Includes(c.originWhitelist, origin) THEN "pass"
    ELSE IF Includes(c.originBlacklist, origin) THEN "blacklisted"
    ELSE IF Len(c.originWhitelist) # 0 THEN "not-whitelisted"
    ELSE "pass"

\* Lines 381-392: the origin checks.
OriginChecks(c, origin) ==
    IF Includes(c.originBlacklist, origin) THEN "blacklisted"
    ELSE IF Len(c.originWhitelist) # 0 /\ ~Includes(c.originWhitelist, origin)
    THEN "not-whitelisted"
    ELSE "pass"

\* Limit checks in which the same-origin redirect comes before the rate limit.
LimitChecksSameOriginFirst(c, location, origin) ==
    IF c.redirectSameOrigin /\ Truthy(origin) /\ IsSameOrigin(location, origin)
    THEN "same-origin"
    ELSE IF c.checkRateLimit.present /\ Truthy(checkRateLimit(c, origin)) THEN "rate-limited"
    ELSE "proxy"

\* Lines 394-410: the rate limit and the same-origin redirect.
LimitChecks(c, location, origin) ==
    IF c.checkRateLimit.present /\ Truthy(checkRateLimit(c, origin)) THEN "rate-limited"
    ELSE IF c.redirectSameOrigin /\ Truthy(origin) /\ IsSameOrigin(location, origin)
    THEN "same-origin"
    ELSE "proxy"

\* Lines 338-379: the checks of the target and of the required headers.
TargetChecks(c, q, location) ==
    IF location = Null
    THEN (IF LooksLikeMissingSlash(q.url) THEN "missing-slash" ELSE "usage")
    ELSE IF location.host = <<"iscorsneeded">> THEN "iscorsneeded"
    ELSE IF location.port # NoValue /\ ToNumber(location.port) > 65535 THEN "invalid-port"
    ELSE IF ~HasExplicitScheme(q.url) /\ ~isValidHostName(location.hostname)
    THEN "invalid-host"
    ELSE IF ~hasRequiredHeaders(c, q.headers) THEN "header-required"
    ELSE "pass"

\* The checks with those of the origin before those of the target.
ChecksOriginFirst(target, origin, limit) ==
    IF origin # "pass" THEN origin ELSE IF target # "pass" THEN target ELSE limit

\* Lines 338-410 in their order: the first check that ends the request.
ChecksInOrder(target, origin, limit) ==
    IF target # "pass" THEN target ELSE IF origin # "pass" THEN origin ELSE limit

\* A chain in which the hook is asked before the method is looked at.
ValidatorChainHookFirst(c, q, location, claims) ==
    IF c.handleInitialRequest /\ claims THEN "hooked"
    ELSE IF q.method = "OPTIONS" THEN "preflight"
    ELSE ChecksInOrder(TargetChecks(c, q, location), OriginChecks(c, OriginOf(q)),
                       LimitChecks(c, location, OriginOf(q)))

\* The branch the handler takes for request q with parsed target `location`;
\* `claims`: what handleInitialRequest returns when it is called.
ValidatorChain(c, q, location, claims) ==
    IF q.method = "OPTIONS" THEN "preflight"
    ELSE IF c.handleInitialRequest /\ claims THEN "hooked"
    ELSE ChecksInOrder(TargetChecks(c, q, location), OriginChecks(c, OriginOf(q)),
                       LimitChecks(c, location, OriginOf(q)))

\* The branches in which handleInitialRequest and checkRateLimit were called.
HookReached(branch) == branch # "preflight"

RateLimitReached(branch) == branch \in {"rate-limited", "same-origin", "proxy"}

\* req.connection.encrypted || /^\s*https/.test(req.headers['x-forwarded-proto']),
\* for a server created without httpsOptions.
isRequestedOverHttps(q) ==
    /\ Truthy(GetHeader(q.headers, "x-forwarded-proto"))
    /\ Head(GetHeader(q.headers, "x-forwarded-proto")) = "https"

RECURSIVE DeleteHeaders(_, _)
DeleteHeaders(h, names) ==
    IF names = <<>> THEN h ELSE DeleteHeaders(DeleteHeader(h, Head(names)), Tail(names))

RECURSIVE SetHeaders(_, _)
SetHeaders(h, pairs) ==
    IF pairs = <<>> THEN h ELSE SetHeaders(SetHeader(h, Head(pairs)[1], Head(pairs)[2]), Tail(pairs))

Quoted(origin) == <<"The origin \"">> \o origin \o <<"\"">>

\* Lines 318-322
NewRequestState(c) ==
    [maxRedirects |-> c.maxRedirects, corsMaxAge |-> c.corsMaxAge, location |-> Null,
     proxyBaseUrl |-> NoValue, redirectCount_ |-> <<>>]

\* The exchange after a handler that neither responds nor proxies.
Handled(c, q, branch) ==
    [pc |-> "done", req |-> q, requestState |-> NewRequestState(c), res |-> NewResponse,
     usageHeaders |-> <<>>, proxyReq |-> NoProxyReq, engineCalls |-> 0,
     hookCalls |-> IF c.handleInitialRequest /\ HookReached(branch) THEN 1 ELSE 0,
     rateCalls |-> IF c.checkRateLimit.present /\ RateLimitReached(branch) THEN 1 ELSE 0]

\* res.writeHead(statusCode, statusMessage, h); res.end(body); return
Reply(base, statusCode, statusMessage, h, body) ==
    [base EXCEPT !.res = ResEnd(ResWriteHead(NewResponse, statusCode, statusMessage, h), body)]

Usage(base, u) == [base EXCEPT !.res = u.res, !.pc = u.pc, !.usageHeaders = u.usageHeaders]

\* Lines 404-406
RedirectHeaders(cors_headers, location) ==
    SetHeader(SetHeader(SetHeader(cors_headers, "consty", <<"origin">>),
                        "cache-control", <<"private">>),
              "location", location.href)

\* Line 413
ProxyBaseUrl(q) ==
    (IF isRequestedOverHttps(q) THEN <<"https://">> ELSE <<"http://">>)
    \o GetHeader(q.headers, "host")

Proxied(base, st, p) ==
    [base EXCEPT !.pc = p.pc, !.req = p.req, !.requestState = st, !.res = p.res,
                 !.proxyReq = p.proxyReq, !.engineCalls = 1]

\* Lines 412-426
StartProxying(c, base, q, st, throws) == Proxied(base, st, proxyRequest(c, q, st, NewResponse, throws))

\* The response of each branch, lines 325-426.
Respond(c, cached, q, cors_headers, location, origin, branch, base, throws) ==
    CASE branch = "preflight" -> Reply(base, 200, "", cors_headers, <<>>)
      [] branch = "hooked" -> [base EXCEPT !.pc = "hooked"]
      [] branch = "missing-slash" ->
            Reply(base, 400, "Missing slash", cors_headers,
                  <<"The URL is invalid: two slashes are needed after the http(s):.">>)
      [] branch = "usage" -> Usage(base, showUsage(c.helpFile, cached, cors_headers, NewResponse))
      [] branch = "iscorsneeded" ->
            Reply(base, 200, "", <<<<"Content-Type", <<"text/plain">>>>>>, <<"no">>)
      [] branch = "invalid-port" ->
            Reply(base, 400, "Invalid port", cors_headers,
                  <<"Port number too large: ">> \o location.port)
      [] branch = "invalid-host" ->
            Reply(base, 404, "Invalid host", cors_headers,
                  <<"Invalid host: ">> \o location.hostname)
      [] branch = "header-required" ->
            Reply(base, 400, "Header required", cors_headers,
                  <<"Missing required request header. Must specify one of: ">>
                  \o JoinComma(c.requireHeader))
      [] branch = "blacklisted" ->
            Reply(base, 403, "Forbidden", cors_headers,
                  Quoted(origin) \o <<" was blacklisted by the operator of this proxy.">>)
      [] branch = "not-whitelisted" ->
            Reply(base, 403, "Forbidden", cors_headers,
                  Quoted(origin) \o <<" was not whitelisted by the operator of this proxy.">>)
      [] branch = "rate-limited" ->
            Reply(base, 429, "Too Many Requests", cors_headers,
                  Quoted(origin) \o <<" has sent too many requests.\n">>
                  \o checkRateLimit(c, origin))
      [] branch = "same-origin" ->
            Reply(base, 301, "Please use a direct request",
                  RedirectHeaders(cors_headers, location), <<>>)
      [] OTHER ->
            StartProxying(c, base,
                          [q EXCEPT !.headers = SetHeaders(DeleteHeaders(@, c.removeHeaders),
                                                           c.setHeaders)],
                          [NewRequestState(c) EXCEPT !.location = location,
                                                     !.proxyBaseUrl = ProxyBaseUrl(q)],
                          throws)

RespondTo(c, cached, q, cors_headers, location, branch, throws) ==
    Respond(c, cached, q, cors_headers, location, OriginOf(q), branch,
            Handled(c, q, branch), throws)

HandleParsed(c, cached, q, cors_headers, location, claims, throws) ==
    RespondTo(c, cached, q, cors_headers, location, ValidatorChain(c, q, location, claims),
              throws)

HandleWithCors(c, cached, cors, claims, throws) ==
    HandleParsed(c, cached, cors.request, cors.headers, parseURL(Drop(cors.request.url, 1)),
                 claims, throws)

\* The whole handler, lines 317-427: the values of the exchange after it.
HandleRequest(c, cached, q0, claims, throws) ==
    HandleWithCors(c, cached, withCORS(<<>>, q0, c.corsMaxAge), claims, throws)

\* -------------------------------------------------------------------------
\* onProxyResponse (the redirect follower)
\* -------------------------------------------------------------------------

\* !requestState.redirectCount_
IsFirstHop(st) == st.redirectCount_ = <<>> \/ st.redirectCount_ = <<0>>

\* Line 192: the status codes handled as redirects.
IsRedirectStatus(statusCode) == statusCode \in {301, 302, 303, 307, 308}

\* A follower that also follows 307.
IsFollowableStatusWith307(statusCode) == statusCode \in {301, 302, 303, 307}

\* Line 200: the redirects that are counted and may be followed.
IsFollowableStatus(statusCode) == statusCode \in {301, 302, 303}

\* A count that is set to 1 at each redirect.
NextRedirectCountStuck(count) == <<1>>

\* requestState.redirectCount_ + 1 || 1
NextRedirectCount(count) == IF count = <<>> THEN <<1>> ELSE <<count[1] + 1>>

\* A budget that is one redirect short.
WithinRedirectBudgetShort(count, maxRedirects) == count[1] < maxRedirects

\* Line 203
WithinRedirectBudget(count, maxRedirects) == count[1] <= maxRedirects

\* A relay that strips set-cookie only.
StripCookiesFirstOnly(h) == DeleteHeader(h, "set-cookie")

\* Lines 233-235
StripCookies(h) == DeleteHeader(DeleteHeader(h, "set-cookie"), "set-cookie2")

\* Line 229
ProxyRelativeLocation(st, locationHeader) == st.proxyBaseUrl \o <<"/">> \o locationHeader

\* 'X-CORS-Redirect-' + requestState.redirectCount_
RedirectHeaderName(n) == "X-CORS-Redirect-" \o NumToString(n)

\* statusCode + ' ' + locationHeader
RedirectHeaderValue(statusCode, locationHeader) ==
    <<NumToString(statusCode), " ">> \o locationHeader

\* Lines 188-190
StageRequestUrl(st, r) ==
    IF IsFirstHop(st) THEN ResSetHeader(r, "x-request-url", st.location.href) ELSE r

\* Lines 193-197: the Location of a redirect, resolved against the target.
ResolvedLocation(st, pRes) ==
    IF IsRedirectStatus(pRes.statusCode) /\ Truthy(GetHeader(pRes.headers, "location"))
    THEN urlResolve(st.location.href, GetHeader(pRes.headers, "location"))
    ELSE NoValue

\* A follower that lets the engine relay the redirect that it follows.
FollowRedirectPiped(q, st, r1, pRes, locationHeader, parsedLocation, count) ==
    [relay        |-> TRUE,
     res          |-> ResSetHeader(r1, RedirectHeaderName(count[1]),
                                   RedirectHeaderValue(pRes.statusCode, locationHeader)),
     req          |-> [q EXCEPT !.method = "GET",
                                !.headers = DeleteHeader(SetHeader(@, "content-length", <<"0">>),
                                                         "content-type")],
     requestState |-> [st EXCEPT !.redirectCount_ = count, !.location = parsedLocation],
     headers      |-> pRes.headers]

\* A follower that re-issues the request as it was.
FollowRedirectAsIs(q, st, r1, pRes, locationHeader, parsedLocation, count) ==
    [relay        |-> FALSE,
     res          |-> ResSetHeader(r1, RedirectHeaderName(count[1]),
                                   RedirectHeaderValue(pRes.statusCode, locationHeader)),
     req          |-> q,
     requestState |-> [st EXCEPT !.redirectCount_ = count, !.location = parsedLocation],
     headers      |-> pRes.headers]

\* Lines 207-212 and 226: the redirect is followed.
FollowRedirect(q, st, r1, pRes, locationHeader, parsedLocation, count) ==
    [relay        |-> FALSE,
     res          |-> ResSetHeader(r1, RedirectHeaderName(count[1]),
                                   RedirectHeaderValue(pRes.statusCode, locationHeader)),
     req          |-> [q EXCEPT !.method = "GET",
                                !.headers = DeleteHeader(SetHeader(@, "content-length", <<"0">>),
                                                         "content-type")],
     requestState |-> [st EXCEPT !.redirectCount_ = count, !.location = parsedLocation],
     headers      |-> pRes.headers]

RelayResult(st, r1, count, cors) ==
    [relay |-> TRUE, res |-> r1, req |-> cors.request,
     requestState |-> [st EXCEPT !.redirectCount_ = count], headers |-> cors.headers]

\* Lines 229-239: the response is relayed.
RelayResponse(q, st, r1, pRes, locationHeader, parsedLocation, count) ==
    RelayResult(st, r1, count,
        withCORS(SetHeader(StripCookies(IF parsedLocation # Null
                                        THEN SetHeader(pRes.headers, "location",
                                                       ProxyRelativeLocation(st, locationHeader))
                                        ELSE pRes.headers),
                           "x-final-url", st.location.href),
                 q, st.corsMaxAge))

\* Lines 199-203 and 226-239, with the redirect count after line 202.
FollowOrRelay(q, st, r1, pRes, locationHeader, parsedLocation, count) ==
    IF parsedLocation # Null /\ IsFollowableStatus(pRes.statusCode)
       /\ WithinRedirectBudget(count, st.maxRedirects)
    THEN FollowRedirect(q, st, r1, pRes, locationHeader, parsedLocation, count)
    ELSE RelayResponse(q, st, r1, pRes, locationHeader, parsedLocation, count)

\* Lines 199-202
CountRedirect(q, st, r1, pRes, locationHeader, parsedLocation) ==
    FollowOrRelay(q, st, r1, pRes, locationHeader, parsedLocation,
                  IF parsedLocation # Null /\ IsFollowableStatus(pRes.statusCode)
                  THEN NextRedirectCount(st.redirectCount_) ELSE st.redirectCount_)

ParseLocation(q, st, r1, pRes, locationHeader) ==
    CountRedirect(q, st, r1, pRes, locationHeader,
                  IF locationHeader # NoValue THEN parseURL(locationHeader) ELSE Null)

\* onProxyResponse(proxy, proxyReq, proxyRes, req, res): what it returns
\* (relay), and req, requestState, res and proxyRes.headers after it. The new
\* proxyRequest of a followed redirect is made by the action.
onProxyResponse(q, st, r, pRes) ==
    ParseLocation(q, st, StageRequestUrl(st, r), pRes, ResolvedLocation(st, pRes))

UpstreamBody == <<"(upstream body)">>

\* listener(proxyRes), the proxy engine's relay: every header of proxyRes is
\* set on res, then the status; the head is sent and the body is piped.
EngineRelay(r, statusCode, h) ==
    [ResSetHeaders(r, h) EXCEPT !.statusCode = statusCode, !.headersSent = TRUE,
                                !.writeHeads = @ + 1, !.body = UpstreamBody]

\* The same relay when the listener throws before the head is sent.
EngineRelayThrown(r, statusCode, h) ==
    [ResSetHeaders(r, h) EXCEPT !.statusCode = statusCode]

\* -------------------------------------------------------------------------
\* The upstream
\* -------------------------------------------------------------------------

LocationAbsolute == OriginB \o <<"/", "y">>

LocationPath == <<"/", "z">>

\* A Location with a port above 65535.
LocationBigPort == OriginB \o <<":", "9", "9", "9", "9", "9", "/">>

\* "http://:1/" has no hostname: parseURL returns null.
LocationUnparsable == cHttp \o cSlashes \o <<":", "1", "/">>

\* The value of an x-request-url header that the upstream itself sends.
UpstreamRequestUrl == <<"http://upstream.test/">>

MakeReply(statusCode, location, cookies, extra) ==
    [statusCode |-> statusCode,
     headers |->
        <<<<"content-type", <<"text/html">>>>>>
        \o (IF location = <<>> THEN <<>> ELSE <<<<"location", location>>>>)
        \o (IF "set-cookie" \in cookies THEN <<<<"set-cookie", <<"a=1">>>>>> ELSE <<>>)
        \o (IF "set-cookie2" \in cookies THEN <<<<"set-cookie2", <<"b=2">>>>>> ELSE <<>>)
        \o extra]

\* The responses of the upstream under the specification of the validator chain.
BasicReplies ==
    {MakeReply(200, <<>>, {"set-cookie"}, <<>>),
     MakeReply(200, <<>>, {}, <<<<"access-control-allow-origin", <<"null">>>>>>),
     MakeReply(302, LocationAbsolute, {"set-cookie2"}, <<>>),
     MakeReply(404, <<>>, {}, <<>>)}

\* The responses of the upstream under the specification of the redirect follower.
RedirectReplies ==
    {MakeReply(s, l, c, <<>>) :
        s \in {200, 301, 302, 303, 307, 308},
        l \in {<<>>, LocationAbsolute, LocationPath, LocationUnparsable},
        c \in {{}, {"set-cookie", "set-cookie2"}}}
    \cup {MakeReply(200, <<>>, {}, <<<<"x-request-url", UpstreamRequestUrl>>>>),
          MakeReply(302, LocationBigPort, {}, <<>>)}

\* The n-th response of the scripted upstream: 302 to a path that names the
\* hop, `chain` times, then 200.
ScriptedReply(n) ==
    IF n <= chain
    THEN MakeReply(302, <<"/", "r", NumToString(n)>>, {}, <<>>)
    ELSE MakeReply(200, <<>>, {}, <<>>)

\* -------------------------------------------------------------------------
\* Actions
\* -------------------------------------------------------------------------

\* The reads of the help file that are counted for one exchange.
MaxFileReads == 2

\* The exchange takes the values n the handler leaves.
RequestHandled(q, n) ==
    /\ pc' = n.pc
    /\ req' = n.req
    /\ requestState' = n.requestState
    /\ res' = n.res
    /\ usageHeaders' = n.usageHeaders
    /\ proxyReq' = n.proxyReq
    /\ engineCalls' = n.engineCalls
    /\ hookCalls' = n.hookCalls
    /\ rateCalls' = n.rateCalls
    /\ received' = q
    /\ fileReads' = IF n.pc = "reading" THEN 1 ELSE 0
    /\ UNCHANGED <<corsAnywhere, other, help_text, abortedReqs, proxyRes, chain>>

\* A request arrives and the handler runs.
Request(q, claims, throws) ==
    /\ pc = "idle"
    /\ RequestHandled(q, HandleRequest(corsAnywhere, help_text, q, claims, throws))

\* Lines 124-135: the engine's listener relays the response.
Relayed(o, reply, throws) ==
    /\ res' = IF throws
              THEN onProxyError(EngineRelayThrown(o.res, reply.statusCode, o.headers))
              ELSE EngineRelay(o.res, reply.statusCode, o.headers)
    /\ pc' = IF throws THEN "done" ELSE "streaming"
    /\ req' = o.req
    /\ requestState' = o.requestState
    /\ proxyReq' = IF throws THEN NoProxyReq ELSE proxyReq
    /\ UNCHANGED <<engineCalls, abortedReqs>>

\* Lines 214-226: the outbound request is aborted, a new one is made.
Followed(o, p) ==
    /\ res' = p.res
    /\ pc' = p.pc
    /\ req' = p.req
    /\ requestState' = o.requestState
    /\ proxyReq' = p.proxyReq
    /\ engineCalls' = engineCalls + 1
    /\ abortedReqs' = abortedReqs + 1

ResponseHandled(o, reply, throws) ==
    /\ IF o.relay
       THEN Relayed(o, reply, throws)
       ELSE Followed(o, proxyRequest(corsAnywhere, o.req, o.requestState, o.res, throws))
    /\ proxyRes' = reply
    /\ UNCHANGED <<corsAnywhere, other, help_text, received, usageHeaders, hookCalls, rateCalls, chain, fileReads>>

\* The 'response' event of the current outbound request: onProxyResponse,
\* then a new proxyRequest or the engine's listener. `throws`: the call that
\* follows (proxy.web, or the listener) throws.
ProxyResponse(reply, throws) ==
    /\ pc = "upstream"
    /\ proxyReq.active
    /\ ResponseHandled(onProxyResponse(req, requestState, res, reply), reply, throws)

\* The upstream body ends and the engine ends the response.
ResponseEnd ==
    /\ pc = "streaming"
    /\ res' = [res EXCEPT !.writableEnded = TRUE]
    /\ pc' = "done"
    /\ proxyReq' = NoProxyReq
    /\ UNCHANGED <<corsAnywhere, other, help_text, received, req, requestState, usageHeaders,
                   engineCalls, abortedReqs, hookCalls, rateCalls, proxyRes, chain, fileReads>>

\* The current outbound request fails: the engine emits 'error' on the proxy.
ProxyError ==
    /\ pc \in {"upstream", "streaming"}
    /\ proxyReq.active
    /\ res' = onProxyError(res)
    /\ pc' = "done"
    /\ proxyReq' = NoProxyReq
    /\ UNCHANGED <<corsAnywhere, other, help_text, received, req, requestState, usageHeaders,
                   engineCalls, abortedReqs, hookCalls, rateCalls, proxyRes, chain, fileReads>>

\* The error of an aborted outbound request goes to the error handler of the proxy.
AbortedRequestErrorSurfaces ==
    /\ abortedReqs > 0
    /\ abortedReqs' = abortedReqs - 1
    /\ res' = onProxyError(res)
    /\ pc' = "done"
    /\ proxyReq' = NoProxyReq
    /\ UNCHANGED <<corsAnywhere, other, help_text, received, req, requestState, usageHeaders,
                   engineCalls, hookCalls, rateCalls, proxyRes, chain, fileReads>>

\* An aborted outbound request emits 'error' (or closes): catchAndIgnoreError.
AbortedRequestError ==
    /\ abortedReqs > 0
    /\ abortedReqs' = abortedReqs - 1
    /\ UNCHANGED <<corsAnywhere, other, help_text, pc, received, req, requestState, res, usageHeaders,
                   proxyReq, engineCalls, hookCalls, rateCalls, proxyRes, chain, fileReads>>

UsageServed(u) ==
    /\ res' = u.res
    /\ pc' = u.pc
    /\ usageHeaders' = u.usageHeaders
    /\ fileReads' = IF u.pc = "reading" /\ fileReads < MaxFileReads
                    THEN fileReads + 1 ELSE fileReads

\* The callback of fs.readFile in showUsage; `failed`: err is set; data: the
\* content of the file.
ReadFileDone(failed, data) ==
    /\ pc = "reading"
    /\ IF failed
       THEN /\ res' = ResEnd(ResWriteHead(res, 500, "", usageHeaders), <<>>)
            /\ pc' = "done"
            /\ usageHeaders' = <<>>
            /\ UNCHANGED <<help_text, fileReads>>
       ELSE /\ help_text' = data
            /\ UsageServed(showUsage(corsAnywhere.helpFile, data, usageHeaders, res))
    /\ UNCHANGED <<corsAnywhere, other, received, req, requestState, proxyReq, engineCalls,
                   abortedReqs, hookCalls, rateCalls, proxyRes, chain>>

\* The exchange is over and its objects are dropped.
Close ==
    /\ pc \in {"done", "hooked"}
    /\ abortedReqs = 0
    /\ pc' = "idle"
    /\ received' = NoRequest
    /\ req' = NoRequest
    /\ requestState' = NoRequestState
    /\ res' = NewResponse
    /\ usageHeaders' = <<>>
    /\ proxyReq' = NoProxyReq
    /\ engineCalls' = 0
    /\ hookCalls' = 0
    /\ rateCalls' = 0
    /\ proxyRes' = NoProxyRes
    /\ fileReads' = 0
    /\ UNCHANGED <<corsAnywhere, other, help_text, abortedReqs, chain>>

\* -------------------------------------------------------------------------
\* A second exchange of the same server. Its req, res, request state and
\* outbound request are objects of its own; it runs the same handlers with
\* the same corsAnywhere and help_text.
\* -------------------------------------------------------------------------

NoExchange ==
    [pc |-> "idle", req |-> NoRequest, requestState |-> NoRequestState, res |-> NewResponse,
     proxyReq |-> NoProxyReq, engineCalls |-> 0, abortedReqs |-> 0]

\* A handler in which every request writes to one state object.
SharedState(mine, written) == written

\* Lines 318-322 and 184: the handler makes a new state object for each
\* request and keeps it on that request; `mine` is the state of an exchange
\* after another exchange has `written` its own.
OwnState(mine, written) == mine

\* What a step of the second exchange leaves of the first.
OtherStepped(st) ==
    /\ requestState' = OwnState(requestState, st)
    /\ UNCHANGED <<corsAnywhere, help_text, pc, received, req, res, usageHeaders, proxyReq,
                   engineCalls, abortedReqs, hookCalls, rateCalls, proxyRes, chain, fileReads>>

OtherHandled(n) ==
    /\ n.pc \in {"upstream", "done"}
    /\ other' = [pc |-> n.pc, req |-> n.req, requestState |-> n.requestState, res |-> n.res,
                 proxyReq |-> n.proxyReq, engineCalls |-> n.engineCalls,
                 abortedReqs |-> other.abortedReqs]
    /\ OtherStepped(n.requestState)

\* A request of the second exchange arrives and the handler runs.
OtherRequest(q) ==
    /\ other.pc = "idle"
    /\ OtherHandled(HandleRequest(corsAnywhere, help_text, q, FALSE, FALSE))

OtherFollowed(o, p) ==
    other' = [other EXCEPT !.res = p.res, !.pc = p.pc, !.req = p.req,
                           !.requestState = o.requestState, !.proxyReq = p.proxyReq,
                           !.engineCalls = @ + 1, !.abortedReqs = @ + 1]

OtherResponseHandled(o, reply) ==
    /\ IF o.relay
       THEN other' = [other EXCEPT !.res = EngineRelay(o.res, reply.statusCode, o.headers),
                                   !.pc = "streaming", !.req = o.req,
                                   !.requestState = o.requestState]
       ELSE OtherFollowed(o, proxyRequest(corsAnywhere, o.req, o.requestState, o.res, FALSE))
    /\ OtherStepped(o.requestState)

\* The 'response' event of the outbound request of the second exchange.
OtherResponse(reply) ==
    /\ other.pc = "upstream"
    /\ other.proxyReq.active
    /\ OtherResponseHandled(onProxyResponse(other.req, other.requestState, other.res, reply),
                            reply)

\* The upstream body of the second exchange ends.
OtherEnd ==
    /\ other.pc = "streaming"
    /\ other' = [other EXCEPT !.res.writableEnded = TRUE, !.pc = "done",
                              !.proxyReq = NoProxyReq]
    /\ OtherStepped(other.requestState)

\* The outbound request of the second exchange fails.
OtherError ==
    /\ other.pc \in {"upstream", "streaming"}
    /\ other.proxyReq.active
    /\ other' = [other EXCEPT !.res = onProxyError(@), !.pc = "done", !.proxyReq = NoProxyReq]
    /\ OtherStepped(other.requestState)

\* An aborted outbound request of the second exchange emits 'error'.
OtherAbortedError ==
    /\ other.abortedReqs > 0
    /\ other' = [other EXCEPT !.abortedReqs = @ - 1]
    /\ UNCHANGED <<corsAnywhere, help_text, pc, received, req, requestState, res, usageHeaders,
                   proxyReq, engineCalls, abortedReqs, hookCalls, rateCalls, proxyRes, chain,
                   fileReads>>

\* The second exchange is over and its objects are dropped.
OtherClose ==
    /\ other.pc = "done"
    /\ other.abortedReqs = 0
    /\ other' = NoExchange
    /\ UNCHANGED <<corsAnywhere, help_text, pc, received, req, requestState, res, usageHeaders,
                   proxyReq, engineCalls, abortedReqs, hookCalls, rateCalls, proxyRes, chain,
                   fileReads>>

\* -------------------------------------------------------------------------
\* Specifications
\* -------------------------------------------------------------------------

\* The largest maxRedirects of the configurations.
MaxRedirectsBound == 2

\* The longest scripted chain of redirects.
MaxChain == 3

InitExchange ==
    /\ help_text = NoValue
    /\ pc = "idle"
    /\ received = NoRequest
    /\ req = NoRequest
    /\ requestState = NoRequestState
    /\ res = NewResponse
    /\ usageHeaders = <<>>
    /\ proxyReq = NoProxyReq
    /\ engineCalls = 0
    /\ abortedReqs = 0
    /\ hookCalls = 0
    /\ rateCalls = 0
    /\ proxyRes = NoProxyRes
    /\ fileReads = 0
    /\ other = NoExchange

RateLimitMessage == <<"quota exceeded">>

\* The options of the validator chain's specification.
AdmissionOptions ==
    [handleInitialRequest : BOOLEAN,
     maxRedirects         : {1},
     originBlacklist      : {<<>>, <<OriginA>>},
     originWhitelist      : {<<>>, <<OriginA>>, <<OriginB>>},
     checkRateLimit       : {[present |-> FALSE, limited |-> {}, message |-> <<>>],
                             [present |-> TRUE, limited |-> {OriginA}, message |-> RateLimitMessage]},
     redirectSameOrigin   : BOOLEAN,
     requireHeader        : {[type |-> "null", value |-> <<>>],
                             [type |-> "string", value |-> "X-Requested-With"],
                             [type |-> "array", value |-> <<>>]},
     corsMaxAge           : {0, 600}]

AdmissionRequests ==
    {MakeRequest(m, u, o, x, m = "OPTIONS" /\ x, <<>>) :
        m \in {"GET", "OPTIONS"}, u \in RawUrls, o \in Origins, x \in BOOLEAN}

\* The options of the redirect follower's specifications.
RedirectOptions ==
    [maxRedirects  : 0..MaxRedirectsBound,
     removeHeaders : {<<"cookie">>},
     setHeaders    : {<<<<"x-powered-by", <<"cors-anywhere">>>>>>}]

RedirectRequests ==
    {MakeRequest("GET", UrlHttp, <<>>, FALSE, FALSE, <<>>),
     MakeRequest("POST", UrlHttp, <<>>, FALSE, FALSE, <<"https">>)}

Init ==
    /\ corsAnywhere \in {getHandler(o) : o \in AdmissionOptions}
    /\ chain = -1
    /\ InitExchange

Next ==
    \/ \E q \in AdmissionRequests, claims \in BOOLEAN, throws \in BOOLEAN :
          Request(q, claims, throws)
    \/ \E reply \in BasicReplies, throws \in BOOLEAN : ProxyResponse(reply, throws)
    \/ ResponseEnd
    \/ ProxyError
    \/ AbortedRequestError
    \/ \E failed \in BOOLEAN, data \in {<<>>, <<"usage text">>} : ReadFileDone(failed, data)
    \/ Close

Spec == Init /\ [][Next]_vars

InitRedirect ==
    /\ corsAnywhere \in {getHandler(o) : o \in RedirectOptions}
    /\ chain = -1
    /\ InitExchange

NextRedirect ==
    \/ \E q \in RedirectRequests : Request(q, FALSE, FALSE)
    \/ \E reply \in RedirectReplies : ProxyResponse(reply, FALSE)
    \/ ResponseEnd
    \/ ProxyError
    \/ AbortedRequestError
    \/ Close

SpecRedirect == InitRedirect /\ [][NextRedirect]_vars

InitChain ==
    /\ corsAnywhere \in {getHandler(o) : o \in RedirectOptions}
    /\ chain \in 0..MaxChain
    /\ InitExchange

NextChain ==
    \/ \E q \in RedirectRequests : Request(q, FALSE, FALSE)
    \/ ProxyResponse(ScriptedReply(engineCalls), FALSE)
    \/ ResponseEnd
    \/ AbortedRequestError
    \/ Close

SpecChain == InitChain /\ [][NextChain]_vars

\* The targets of the normalizer's specification, by their parts: an optional
\* scheme, "//" (always there after a scheme), the hostname, an optional
\* ":port" and a path.
TargetParts ==
    {t \in [scheme   : {<<>>, cHttp, cHttps},
            slashes  : BOOLEAN,
            hostname : {hostA, hostB},
            port     : {NoValue, <<>>, <<"4", "4", "3">>, <<"8", "4", "4", "3">>,
                        <<"0", "4", "4", "3">>, <<"4", "4", "3", "0">>, <<"8", "0">>},
            path     : {<<>>, <<"/">>, <<"?", "q">>, <<"/", ":", "4", "4", "3">>}] :
        t.scheme # <<>> => t.slashes}

\* The text of a target.
TargetText(t) ==
    t.scheme \o (IF t.slashes THEN cSlashes ELSE <<>>) \o t.hostname
    \o (IF t.port = NoValue THEN <<>> ELSE <<":">> \o t.port) \o t.path

ParseRequests ==
    {MakeRequest("GET", cSlash \o TargetText(t), <<>>, FALSE, FALSE, <<>>) : t \in TargetParts}

InitParse ==
    /\ corsAnywhere = getHandler([maxRedirects |-> 0])
    /\ chain = -1
    /\ InitExchange

NextParse ==
    \/ \E q \in ParseRequests : Request(q, FALSE, FALSE)
    \/ ProxyError
    \/ Close

SpecParse == InitParse /\ [][NextParse]_vars

\* The requests and the upstream responses of the second exchange.
OtherRequests ==
    {MakeRequest("GET", UrlHttpsB, OriginA, FALSE, FALSE, <<>>),
     MakeRequest("POST", UrlPlain, <<>>, FALSE, FALSE, <<>>)}

OtherReplies ==
    {MakeReply(200, <<>>, {"set-cookie"}, <<>>),
     MakeReply(302, LocationAbsolute, {}, <<>>),
     MakeReply(301, LocationPath, {}, <<>>)}

\* Two exchanges in any interleaving: the first one with the scripted
\* upstream, the second one with any of OtherReplies at each hop.
InitPair ==
    /\ corsAnywhere \in {getHandler(o) : o \in RedirectOptions}
    /\ chain \in 0..MaxChain
    /\ InitExchange

NextPair ==
    \/ \E q \in RedirectRequests : Request(q, FALSE, FALSE)
    \/ ProxyResponse(ScriptedReply(engineCalls), FALSE)
    \/ ResponseEnd
    \/ AbortedRequestError
    \/ Close
    \/ \E q \in OtherRequests : OtherRequest(q)
    \/ \E reply \in OtherReplies : OtherResponse(reply)
    \/ OtherEnd
    \/ OtherError
    \/ OtherAbortedError
    \/ OtherClose

SpecPair == InitPair /\ [][NextPair]_vars

\* -------------------------------------------------------------------------
\* The request as it arrived, and the checks of the validator chain on it
\* -------------------------------------------------------------------------

ReceivedTarget == parseURL(Drop(received.url, 1))

ReceivedOrigin == OriginOf(received)

FailsPreflight == received.method = "OPTIONS"

FailsHook == pc = "hooked"

FailsTargetOf(target) == target = Null

FailsProbeOf(target) == target.host = <<"iscorsneeded">>

FailsPortOf(target) == target.port # NoValue /\ ToNumber(target.port) > 65535

FailsHostOf(target) == ~HasExplicitScheme(received.url) /\ ~isValidHostName(target.hostname)

FailsTarget == FailsTargetOf(ReceivedTarget)

FailsProbe == FailsProbeOf(ReceivedTarget)

FailsPort == FailsPortOf(ReceivedTarget)

FailsHost == FailsHostOf(ReceivedTarget)

FailsRequiredHeader ==
    /\ corsAnywhere.requireHeader # <<>>
    /\ \A i \in 1..Len(corsAnywhere.requireHeader) :
          ~HasHeader(received.headers, corsAnywhere.requireHeader[i])

FailsBlacklist == \E i \in 1..Len(corsAnywhere.originBlacklist) :
                     corsAnywhere.originBlacklist[i] = ReceivedOrigin

FailsWhitelist ==
    /\ corsAnywhere.originWhitelist # <<>>
    /\ \A i \in 1..Len(corsAnywhere.originWhitelist) :
          corsAnywhere.originWhitelist[i] # ReceivedOrigin

RateLimitAnswer ==
    IF ReceivedOrigin \in corsAnywhere.checkRateLimit.limited
    THEN corsAnywhere.checkRateLimit.message ELSE <<>>

FailsRateLimit == corsAnywhere.checkRateLimit.present /\ RateLimitAnswer # <<>>

FailsSameOriginOf(target) ==
    /\ corsAnywhere.redirectSameOrigin
    /\ ReceivedOrigin # <<>>
    /\ StartsWith(target.href, ReceivedOrigin \o <<"/">>)

FailsSameOrigin == FailsSameOriginOf(ReceivedTarget)

\* The number, in the order of the specification, of the first check that
\* ends the request with target `target`; 0 when none does.
FirstFailedOf(target) ==
    IF FailsPreflight THEN 1
    ELSE IF FailsHook THEN 2
    ELSE IF FailsTargetOf(target) THEN 3
    ELSE IF FailsProbeOf(target) THEN 4
    ELSE IF FailsPortOf(target) THEN 5
    ELSE IF FailsHostOf(target) THEN 6
    ELSE IF FailsRequiredHeader THEN 7
    ELSE IF FailsBlacklist THEN 8
    ELSE IF FailsWhitelist THEN 9
    ELSE IF FailsRateLimit THEN 10
    ELSE IF FailsSameOriginOf(target) THEN 11
    ELSE 0

FirstFailed == FirstFailedOf(ReceivedTarget)

\* The handler answered with this status line and never called the engine.
Answered(statusCode, statusMessage) ==
    /\ pc = "done"
    /\ engineCalls = 0
    /\ res.headersSent /\ res.writableEnded /\ res.writeHeads = 1
    /\ res.statusCode = statusCode
    /\ res.statusMessage = statusMessage

EndsWith(s, tail) == Len(s) >= Len(tail) /\ SubSeq(s, Len(s) - Len(tail) + 1, Len(s)) = tail

AllowOriginHeader == GetHeader(res.headers, "access-control-allow-origin")

\* The response of the check with number k.
ResponseOfCheck(k) ==
    CASE k = 1  -> Answered(200, "") /\ res.body = <<>>
      [] k = 2  -> pc = "hooked" /\ ~res.headersSent /\ engineCalls = 0
      [] k = 3  -> IF LooksLikeMissingSlash(received.url)
                   THEN Answered(400, "Missing slash")
                   ELSE \/ pc = "reading" /\ ~res.headersSent /\ engineCalls = 0
                        \/ Answered(200, "") /\ Truthy(res.body) /\ res.body = help_text
                        \/ Answered(500, "")
      [] k = 4  -> Answered(200, "") /\ res.body = <<"no">>
      [] k = 5  -> Answered(400, "Invalid port")
      [] k = 6  -> Answered(404, "Invalid host")
      [] k = 7  -> Answered(400, "Header required")
      [] k = 8  -> /\ Answered(403, "Forbidden")
                   /\ EndsWith(res.body, <<" was blacklisted by the operator of this proxy.">>)
      [] k = 9  -> /\ Answered(403, "Forbidden")
                   /\ EndsWith(res.body, <<" was not whitelisted by the operator of this proxy.">>)
      [] k = 10 -> Answered(429, "Too Many Requests")
      [] k = 11 -> /\ Answered(301, "Please use a direct request")
                   /\ GetHeader(res.headers, "location") = ReceivedTarget.href
      [] OTHER  -> engineCalls >= 1

\* -------------------------------------------------------------------------
\* C1
\* -------------------------------------------------------------------------

\* C1 as stated: every response the proxy sends carries
\* Access-Control-Allow-Origin: *.
C1_EveryResponseAllowsAnyOrigin ==
    res.headersSent => AllowOriginHeader = <<"*">>

\* The answer to the self-test probe: 200 'no' with Content-Type only.
IsProbeResponse ==
    /\ FirstFailed = 4
    /\ res.statusCode = 200 /\ res.body = <<"no">>
    /\ res.headers = <<<<"content-type", <<"text/plain">>>>>>

\* C1, amended: every response the proxy sends carries
\* Access-Control-Allow-Origin: *, except the answer to the self-test probe
\* (host iscorsneeded), whose only header is Content-Type: text/plain.
C1_EveryResponseButProbeAllowsAnyOrigin ==
    res.headersSent => (AllowOriginHeader = <<"*">> \/ IsProbeResponse)

\* A relayed response whose upstream sent its own Access-Control-Allow-Origin.
C1_Witness ==
    /\ pc = "streaming"
    /\ GetHeader(proxyRes.headers, "access-control-allow-origin") = <<"null">>
    /\ AllowOriginHeader = <<"*">>

\* -------------------------------------------------------------------------
\* C2
\* -------------------------------------------------------------------------

\* C2: the checks run in the fixed order: the response is that of the first
\* check that fails, the pre-admission hook and the rate-limit predicate are
\* called only when every earlier check passed, and the engine is called
\* only when no check fails.
C2_ChecksRunInOrder ==
    pc # "idle" =>
        LET first == FirstFailed
        IN /\ ResponseOfCheck(first)
           /\ (first # 0 => engineCalls = 0)
           /\ hookCalls = (IF corsAnywhere.handleInitialRequest /\ first # 1 THEN 1 ELSE 0)
           /\ rateCalls = (IF corsAnywhere.checkRateLimit.present /\ first \in {0, 10, 11}
                           THEN 1 ELSE 0)

\* A request with an invalid host, no required header, a blacklisted and
\* rate-limited origin: the answer is that of the invalid host.
C2_Witness ==
    /\ pc = "done"
    /\ FirstFailed = 6
    /\ FailsRequiredHeader /\ FailsBlacklist /\ FailsWhitelist /\ FailsRateLimit
    /\ res.statusCode = 404
    /\ rateCalls = 0

\* -------------------------------------------------------------------------
\* C3
\* -------------------------------------------------------------------------

\* C3: an OPTIONS request is answered 200 with an empty body and the CORS
\* headers; the hook, the later checks and the engine are not called.
C3_PreflightShortCircuits ==
    (pc # "idle" /\ received.method = "OPTIONS") =>
        /\ Answered(200, "")
        /\ res.body = <<>>
        /\ AllowOriginHeader = <<"*">>
        /\ HasHeader(res.headers, "access-control-expose-headers")
        /\ (corsAnywhere.corsMaxAge # 0 <=> HasHeader(res.headers, "access-control-max-age"))
        /\ hookCalls = 0
        /\ rateCalls = 0
        /\ proxyReq = NoProxyReq

\* An OPTIONS request for a malformed target from a blacklisted origin, with
\* a hook configured.
C3_Witness ==
    /\ pc = "done"
    /\ received.method = "OPTIONS"
    /\ corsAnywhere.handleInitialRequest
    /\ FailsTarget
    /\ FailsBlacklist
    /\ res.statusCode = 200

\* -------------------------------------------------------------------------
\* C4
\* -------------------------------------------------------------------------

\* The numbers n of the X-CORS-Redirect-n headers of the response.
DebugHeaders ==
    {n \in 1..9 : HasHeader(res.headers, "x-cors-redirect-" \o NumToString(n))}

\* The base URL of the proxy for the request as it arrived.
ReceivedProxyBase ==
    IF GetHeader(received.headers, "x-forwarded-proto") = <<"https">>
    THEN "https://proxy.test" ELSE "http://proxy.test"

\* The scripted upstream has answered and the answer went to the client.
ChainAnswered == chain >= 0 /\ pc \in {"streaming", "done"}

\* The client sees the 200 that ends the chain, with one debug header per
\* redirect of the chain.
SeesFinalResponse ==
    /\ res.statusCode = 200
    /\ proxyRes = ScriptedReply(chain + 1)
    /\ engineCalls = chain + 1
    /\ DebugHeaders = 1..chain

\* The client sees the k-th redirect response of the scripted upstream, with
\* Location rewritten to <proxyBaseUrl>/<absolute location>.
SeesRedirectResponse(k) ==
    /\ res.statusCode = 302
    /\ proxyRes = ScriptedReply(k)
    /\ engineCalls = k
    /\ Join(GetHeader(res.headers, "location"))
          = ReceivedProxyBase \o "/http://a.io/r" \o NumToString(k)

\* C4 as stated: after N redirects and a 200 the client sees one response:
\* the 200 with N debug headers if N <= maxRedirects, and the N-th redirect
\* response with a rewritten Location if N > maxRedirects.
C4_SeesNthRedirect ==
    ChainAnswered =>
        /\ res.writeHeads = 1
        /\ IF chain <= corsAnywhere.maxRedirects
           THEN SeesFinalResponse
           ELSE SeesRedirectResponse(chain)

\* C4, amended: after N redirects and a 200 the client sees one response:
\* the 200 with the N debug headers X-CORS-Redirect-1..N if N <= maxRedirects;
\* if N > maxRedirects, the (maxRedirects + 1)-th redirect response, with a
\* rewritten Location and the debug headers X-CORS-Redirect-1..maxRedirects.
C4_SeesFirstRedirectOverBudget ==
    ChainAnswered =>
        /\ res.writeHeads = 1
        /\ IF chain <= corsAnywhere.maxRedirects
           THEN SeesFinalResponse
           ELSE /\ SeesRedirectResponse(corsAnywhere.maxRedirects + 1)
                /\ DebugHeaders = 1..corsAnywhere.maxRedirects

\* A chain two redirects longer than a budget of at least one has been answered.
C4_Witness ==
    /\ pc = "done"
    /\ corsAnywhere.maxRedirects >= 1
    /\ chain = corsAnywhere.maxRedirects + 2
    /\ res.statusCode = 302
    /\ engineCalls = corsAnywhere.maxRedirects + 1

\* -------------------------------------------------------------------------
\* C5
\* -------------------------------------------------------------------------

\* The Location of the last upstream response, made absolute against the
\* target of the hop, as a string.
AbsoluteLocation(raw) ==
    IF Head(raw) = "/"
    THEN Join(requestState.location.protocol) \o "//" \o Join(requestState.location.host)
         \o Join(raw)
    ELSE Join(raw)

\* What the client gets as Location for the upstream's header `raw`.
RelayedLocation(raw, sent) ==
    IF raw = NoValue THEN sent = NoValue
    ELSE IF raw = LocationUnparsable THEN sent = raw
    ELSE Join(sent) = Join(requestState.proxyBaseUrl) \o "/" \o AbsoluteLocation(raw)

\* The step is the handling of an upstream response.
IsResponseStep == pc = "upstream" /\ (pc' = "streaming" \/ engineCalls' # engineCalls)

\* C5: a 307 or 308 response is never followed: no new upstream request, the
\* redirect count and the request's method, content-type and content-length
\* stay as they are, and the response is relayed, with Location rewritten to
\* <proxyBaseUrl>/<absolute location> when it is parsable.
C5_TemporaryRedirectsRelayed ==
    [][(IsResponseStep /\ proxyRes'.statusCode \in {307, 308}) =>
          /\ pc' = "streaming"
          /\ engineCalls' = engineCalls
          /\ abortedReqs' = abortedReqs
          /\ proxyReq' = proxyReq
          /\ requestState' = requestState
          /\ req'.method = req.method
          /\ GetHeader(req'.headers, "content-type") = GetHeader(req.headers, "content-type")
          /\ GetHeader(req'.headers, "content-length") = GetHeader(req.headers, "content-length")
          /\ res'.statusCode = proxyRes'.statusCode
          /\ res'.headersSent
          /\ RelayedLocation(GetHeader(proxyRes'.headers, "location"),
                             GetHeader(res'.headers, "location"))]_vars

\* A 308 with a relative Location is relayed on the second hop with budget left.
C5_Witness ==
    /\ pc = "streaming"
    /\ proxyRes.statusCode = 308
    /\ GetHeader(proxyRes.headers, "location") = LocationPath
    /\ requestState.redirectCount_ = <<1>>
    /\ corsAnywhere.maxRedirects = 2
    /\ res.statusCode = 308
    /\ engineCalls = 2

\* -------------------------------------------------------------------------
\* C6
\* -------------------------------------------------------------------------

\* C6: the response never has a set-cookie or a set-cookie2 header, whatever
\* the upstream sent on this hop or on an earlier one.
C6_NoCookiesRelayed ==
    /\ ~HasHeader(res.headers, "set-cookie")
    /\ ~HasHeader(res.headers, "set-cookie2")

\* After a followed redirect, a response that the upstream sent with both
\* cookie headers is relayed.
C6_Witness ==
    /\ pc = "streaming"
    /\ HasHeader(proxyRes.headers, "set-cookie")
    /\ HasHeader(proxyRes.headers, "set-cookie2")
    /\ requestState.redirectCount_ = <<1>>
    /\ res.headersSent

\* -------------------------------------------------------------------------
\* C7
\* -------------------------------------------------------------------------

\* C7 as stated: for a request that the validator chain ends the engine is
\* never called, and the request gets exactly one response: one head is
\* written, or none yet while the one read of the help file is under way.
C7_TerminatedRequestsAnsweredOnce ==
    (pc # "idle" /\ FirstFailed # 0) =>
        /\ engineCalls = 0
        /\ proxyReq = NoProxyReq
        /\ res.writeHeads <= 1
        /\ (pc # "hooked" /\ res.writeHeads = 0) => (pc = "reading" /\ fileReads <= 1)

\* -------------------------------------------------------------------------
\* C8
\* -------------------------------------------------------------------------

\* The request got as far as the origin checks.
ReachesOriginChecks == pc # "idle" /\ FirstFailed \notin 1..7

\* C8: at the origin checks a blacklisted origin gets the 403 'was
\* blacklisted', whitelisted or not; with an empty whitelist an origin that
\* is not blacklisted, the empty one too, is not rejected by them.
C8_BlacklistFirst ==
    ReachesOriginChecks =>
        /\ FailsBlacklist =>
              /\ Answered(403, "Forbidden")
              /\ EndsWith(res.body, <<" was blacklisted by the operator of this proxy.">>)
        /\ (corsAnywhere.originWhitelist = <<>> /\ ~FailsBlacklist) =>
              /\ ~(engineCalls = 0 /\ res.statusCode = 403)
              /\ corsAnywhere.checkRateLimit.present => rateCalls = 1

\* An origin on both lists has been rejected.
C8_Witness ==
    /\ pc = "done"
    /\ ReachesOriginChecks
    /\ FailsBlacklist
    /\ \E i \in 1..Len(corsAnywhere.originWhitelist) :
          corsAnywhere.originWhitelist[i] = ReceivedOrigin
    /\ res.statusCode = 403

\* -------------------------------------------------------------------------
\* C9
\* -------------------------------------------------------------------------

\* C9: when the rate-limit predicate is called and returns a non-empty
\* string the response is 429 'Too Many Requests' with the string in its
\* body and nothing is proxied; when it is absent or returns nothing no
\* response is a 429; it is called for every request that passes the origin
\* checks.
C9_RateLimit ==
    pc # "idle" =>
        /\ (rateCalls = 1 /\ RateLimitAnswer # <<>>) =>
              /\ Answered(429, "Too Many Requests")
              /\ EndsWith(res.body, RateLimitAnswer)
              /\ proxyReq = NoProxyReq
        /\ (~corsAnywhere.checkRateLimit.present \/ RateLimitAnswer = <<>>) =>
              ~(engineCalls = 0 /\ res.statusCode = 429)
        /\ (corsAnywhere.checkRateLimit.present /\ FirstFailed \notin 1..9) => rateCalls = 1

\* A rate-limited request that the same-origin check would have redirected.
C9_Witness ==
    /\ pc = "done"
    /\ rateCalls = 1
    /\ FirstFailed = 10
    /\ FailsSameOrigin
    /\ res.statusCode = 429

\* -------------------------------------------------------------------------
\* C10
\* -------------------------------------------------------------------------

\* C10 as stated: a relayed response has x-final-url equal to the target of
\* the hop that produced it and x-request-url equal to the target that was
\* requested first, however many redirects were followed.
C10_RelayedUrlHeaders ==
    pc = "streaming" =>
        /\ GetHeader(res.headers, "x-final-url") = proxyReq.target
        /\ GetHeader(res.headers, "x-request-url") = ReceivedTarget.href

\* -------------------------------------------------------------------------
\* C11
\* -------------------------------------------------------------------------

\* C11: when the engine fails before the head was sent the response is a 404
\* whose only header is Access-Control-Allow-Origin: *; when it fails after
\* the head was sent, status and headers stay as they are and the response is
\* ended; the handler does nothing to a response that has already ended.
C11_EngineFailure ==
    [][/\ (pc = "upstream" /\ pc' = "done") =>
             /\ res'.statusCode = 404
             /\ res'.headers = <<<<"access-control-allow-origin", <<"*">>>>>>
             /\ res'.headersSent /\ res'.writableEnded
             /\ res'.writeHeads = 1
       /\ (pc = "streaming" /\ pc' = "done") =>
             /\ res'.statusCode = res.statusCode
             /\ res'.headers = res.headers
             /\ res'.writeHeads = res.writeHeads
             /\ res'.writableEnded
       /\ (res.headersSent /\ res.writableEnded) => onProxyError(res) = res]_vars

\* The engine failed on the second hop: x-request-url and X-CORS-Redirect-1
\* had been staged and are gone.
C11_Witness ==
    /\ pc = "done"
    /\ engineCalls = 2
    /\ res.statusCode = 404
    /\ ~HasHeader(res.headers, "x-request-url")
    /\ ~HasHeader(res.headers, "x-cors-redirect-1")

\* -------------------------------------------------------------------------
\* C12
\* -------------------------------------------------------------------------

\* The header names that Access-Control-Expose-Headers lists, in lower case.
ExposedNames ==
    {toLowerCase(GetHeader(res.headers, "access-control-expose-headers")[i]) :
        i \in {k \in 1..Len(GetHeader(res.headers, "access-control-expose-headers")) :
                  GetHeader(res.headers, "access-control-expose-headers")[k] # ","}}

\* The names of the other headers of the response.
DeliveredNames ==
    {res.headers[i][1] : i \in 1..Len(res.headers)} \ {"access-control-expose-headers"}

\* C12 as stated: in a response with the CORS headers,
\* Access-Control-Expose-Headers lists exactly the names of the headers that
\* the response is delivered with, those set after withCORS too.
C12_ExposeHeadersComplete ==
    (res.headersSent /\ HasHeader(res.headers, "access-control-expose-headers")) =>
        ExposedNames = DeliveredNames

\* -------------------------------------------------------------------------
\* C13
\* -------------------------------------------------------------------------

\* The request header `asked` is answered by the response header `allowed`
\* and taken off the request; without it the response header is not there.
EchoedAndRemoved(asked, allowed) ==
    IF HasHeader(received.headers, asked)
    THEN /\ GetHeader(res.headers, allowed) = GetHeader(received.headers, asked)
         /\ ~HasHeader(req.headers, asked)
    ELSE ~HasHeader(res.headers, allowed)

\* C13 as stated: a response with the CORS headers answers
\* Access-Control-Request-Method with Access-Control-Allow-Methods and
\* Access-Control-Request-Headers with Access-Control-Allow-Headers, with the
\* same values, and the request headers are removed from the request.
C13_RequestHeadersEchoed ==
    (pc # "idle" /\ res.headersSent /\ HasHeader(res.headers, "access-control-expose-headers")) =>
        /\ EchoedAndRemoved("access-control-request-method", "access-control-allow-methods")
        /\ EchoedAndRemoved("access-control-request-headers", "access-control-allow-headers")

\* -------------------------------------------------------------------------
\* C14
\* -------------------------------------------------------------------------

\* The step follows a redirect: a new upstream request is made.
IsFollowStep == IsResponseStep /\ engineCalls' = engineCalls + 1

\* The redirect count after one more redirect.
CountAfter(count) == IF count = <<>> THEN 1 ELSE count[1] + 1

\* C14: when a redirect is followed it is a 301, 302 or 303 within the
\* budget; the new upstream request is a GET with content-length 0 and no
\* content-type, to the Location resolved against the previous target; and
\* X-CORS-Redirect-<n> = '<status> <resolved location>' is staged, n being
\* the new redirect count.
C14_FollowedRedirect ==
    [][IsFollowStep =>
          /\ proxyRes'.statusCode \in {301, 302, 303}
          /\ requestState'.redirectCount_ = <<CountAfter(requestState.redirectCount_)>>
          /\ CountAfter(requestState.redirectCount_) <= requestState.maxRedirects
          /\ proxyReq'.active
          /\ proxyReq'.method = "GET" /\ req'.method = "GET"
          /\ GetHeader(proxyReq'.headers, "content-length") = <<"0">>
          /\ ~HasHeader(proxyReq'.headers, "content-type")
          /\ Join(proxyReq'.target) = AbsoluteLocation(GetHeader(proxyRes'.headers, "location"))
          /\ requestState'.location.href = proxyReq'.target
          /\ Join(GetHeader(res'.headers, "x-cors-redirect-"
                                \o NumToString(CountAfter(requestState.redirectCount_))))
                = NumToString(proxyRes'.statusCode) \o " "
                  \o AbsoluteLocation(GetHeader(proxyRes'.headers, "location"))
          /\ ~res'.headersSent]_vars

\* A POST was answered 303 with a relative Location and has been re-issued.
C14_Witness ==
    /\ pc = "upstream"
    /\ engineCalls = 2
    /\ received.method = "POST"
    /\ proxyReq.method = "GET"
    /\ proxyRes.statusCode = 303
    /\ GetHeader(proxyRes.headers, "location") = LocationPath

\* -------------------------------------------------------------------------
\* C15
\* -------------------------------------------------------------------------

\* C15 as stated: the target of every upstream request, on the first hop and
\* on each followed one, has a hostname and, if it has a port, one that is
\* not above 65535.
C15_TargetUrlValid ==
    proxyReq.active =>
        /\ requestState.location # Null
        /\ requestState.location.href = proxyReq.target
        /\ Truthy(requestState.location.hostname)
        /\ requestState.location.port # NoValue =>
              ToNumber(requestState.location.port) <= 65535

\* -------------------------------------------------------------------------
\* C16
\* -------------------------------------------------------------------------

\* C16: while upstream requests are made nothing has been piped to the
\* client; the engine relays one upstream response per exchange, the one of
\* the last hop, and handles no upstream response after it.
C16_OnlyLastHopRelayed ==
    [][/\ pc' = "upstream" =>
             /\ ~res'.headersSent
             /\ res'.writeHeads = 0
             /\ res'.body = <<>>
       /\ (pc' = "streaming" /\ pc # "streaming") =>
             /\ pc = "upstream"
             /\ engineCalls' = engineCalls
             /\ res'.writeHeads = 1
             /\ res'.statusCode = proxyRes'.statusCode
             /\ res'.body = UpstreamBody
             /\ proxyReq' = proxyReq
             /\ proxyReq'.target = requestState'.location.href
       /\ pc = "streaming" =>
             /\ pc' \in {"streaming", "done"}
             /\ proxyRes' = proxyRes
             /\ engineCalls' = engineCalls
             /\ res'.writeHeads = 1]_vars

\* The response of the third hop is relayed, after two followed redirects.
C16_Witness ==
    /\ pc = "streaming"
    /\ engineCalls = 3
    /\ res.writeHeads = 1
    /\ res.statusCode = 200
    /\ proxyRes.statusCode = 200

\* -------------------------------------------------------------------------
\* C17
\* -------------------------------------------------------------------------

\* C17: the error of an aborted upstream request, whenever it comes, changes
\* nothing of the exchange: no 404, no end of the response, and the current
\* upstream request stays; the failure of the current upstream request ends
\* the exchange, whether aborted requests are still to fail or not.
C17_StaleErrorsSwallowed ==
    [][/\ abortedReqs' < abortedReqs =>
             /\ abortedReqs' = abortedReqs - 1
             /\ UNCHANGED <<pc, res, req, requestState, proxyReq, proxyRes, engineCalls>>
       /\ (pc = "upstream" /\ pc' = "done") =>
             /\ res'.statusCode = 404
             /\ res'.writableEnded
             /\ ~proxyReq'.active
             /\ abortedReqs' = abortedReqs]_vars

\* Two redirects were followed, both aborted requests have failed, and the
\* response of the third hop went to the client.
C17_Witness ==
    /\ pc = "done"
    /\ engineCalls = 3
    /\ abortedReqs = 0
    /\ res.statusCode = 200
    /\ res.writeHeads = 1

\* -------------------------------------------------------------------------
\* C18: for every target that has no scheme and is proxied, the scheme of the
\* recorded target URL is "https:" if and only if the port written in the
\* target is exactly the text "443" (so no port, an empty port, 8443, 0443 and
\* 4430 all give "http:"); a target that has a scheme keeps it.
\* -------------------------------------------------------------------------

\* The scheme a target is to get, from its parts.
ExpectedProtocol(t) ==
    IF t.scheme # <<>> THEN t.scheme
    ELSE IF t.port = <<"4", "4", "3">> THEN cHttps
    ELSE cHttp

C18_SchemeInference ==
    pc = "upstream" =>
        \A t \in TargetParts :
            received.url = cSlash \o TargetText(t) =>
                /\ requestState.location # Null
                /\ requestState.location.protocol = ExpectedProtocol(t)
                /\ StartsWith(proxyReq.target, ExpectedProtocol(t) \o cSlashes \o t.hostname)

\* A proxied target without a scheme whose port is 0443, on http.
C18_Witness ==
    /\ pc = "upstream"
    /\ received.url = cSlash \o hostA \o <<":", "0", "4", "4", "3", "/">>
    /\ requestState.location.protocol = cHttp
    /\ engineCalls = 1

\* -------------------------------------------------------------------------
\* C19: in any interleaving of two exchanges, the redirect count, the current
\* target, the staged response headers and the response of one exchange are
\* what they are when it runs alone against the same upstream, and handling a
\* request never modifies the configuration.
\* -------------------------------------------------------------------------

\* The exchange that starts with the received request, alone, right after
\* the handler.
SoloStart == HandleRequest(corsAnywhere, NoValue, received, FALSE, FALSE)

SoloNext(o, reply) ==
    IF o.relay
    THEN [req |-> o.req, requestState |-> o.requestState,
          res |-> EngineRelay(o.res, reply.statusCode, o.headers)]
    ELSE [req |-> proxyRequest(corsAnywhere, o.req, o.requestState, o.res, FALSE).req,
          requestState |-> o.requestState, res |-> o.res]

\* The same exchange, alone, after the k-th response of the scripted upstream.
RECURSIVE SoloAfter(_)
SoloAfter(k) ==
    IF k = 0
    THEN [req |-> SoloStart.req, requestState |-> SoloStart.requestState, res |-> SoloStart.res]
    ELSE LET s == SoloAfter(k - 1)
         IN SoloNext(onProxyResponse(s.req, s.requestState, s.res, ScriptedReply(k)),
                     ScriptedReply(k))

\* What the exchange has of SoloAfter(k).
SameAsAlone(s) ==
    /\ requestState = s.requestState
    /\ req = s.req
    /\ res = [s.res EXCEPT !.writableEnded = (pc = "done")]
    /\ proxyReq.active => proxyReq.target = s.requestState.location.href

IsolatedFromOther ==
    pc \in {"upstream", "streaming", "done"} =>
        SameAsAlone(SoloAfter(IF pc = "upstream" THEN engineCalls - 1 ELSE engineCalls))

IsCountedRedirect(reply) ==
    /\ reply.statusCode \in {301, 302, 303}
    /\ GetHeader(reply.headers, "location") \in {LocationAbsolute, LocationPath, LocationBigPort}

C20_RedirectsBounded ==
    /\ [](engineCalls <= corsAnywhere.maxRedirects + 1)
    /\ [][/\ (pc = "idle" /\ pc' = "upstream") =>
                /\ requestState'.redirectCount_ = <<>>
                /\ engineCalls' = 1
          /\ IsResponseStep =>
                /\ requestState'.redirectCount_ =
                      IF IsCountedRedirect(proxyRes')
                      THEN <<CountAfter(requestState.redirectCount_)>>
                      ELSE requestState.redirectCount_
                /\ engineCalls' =
                      IF /\ IsCountedRedirect(proxyRes')
                         /\ CountAfter(requestState.redirectCount_) <= corsAnywhere.maxRedirects
                      THEN engineCalls + 1
                      ELSE engineCalls
          /\ (pc # "idle" /\ pc' # "idle" /\ ~IsResponseStep) =>
                UNCHANGED <<requestState, engineCalls>>]_vars

\* The engine has been invoked maxRedirects + 1 times, and the redirect
\* after the last one allowed is relayed.
C20_Witness ==
    /\ pc = "streaming"
    /\ corsAnywhere.maxRedirects = MaxRedirectsBound
    /\ engineCalls = MaxRedirectsBound + 1
    /\ requestState.redirectCount_ = <<MaxRedirectsBound + 1>>
    /\ res.statusCode = 302

\* -------------------------------------------------------------------------
\* C21
\* -------------------------------------------------------------------------

\* The request is routed to the usage page (lines 338-349): it is not a
\* pre-flight, the hook has not claimed it, its target does not parse and it
\* is not of the "missing slash" shape.
UsageRouted ==
    /\ pc \notin {"idle", "hooked"}
    /\ received.method # "OPTIONS"
    /\ ReceivedTarget = Null
    /\ ~LooksLikeMissingSlash(received.url)

\* C21 as stated, for what it says of every state: a request routed to the
\* usage page gets at most one response head, which is 200 with the content
\* of the help file or 500; the help file is read at most once for the
\* request, whatever its content, and not at all once a read has succeeded.
C21_UsagePageAnswered ==
    UsageRouted =>
        /\ res.writeHeads <= 1
        /\ fileReads <= 1
        /\ pc = "reading" => help_text = NoValue
        /\ pc = "done" =>
              \/ Answered(200, "") /\ res.body = help_text
              \/ Answered(500, "") /\ res.body = <<>>

====
